---------------------------- MODULE Spec2Model ----------------------------
(***************************************************************************)
(* The provider gateway of electron/LLMHelper.ts: one LLMHelper object,    *)
(* its four mutable fields, and the asynchronous operations of the class,  *)
(* each cut at its await points.  The cloud SDK, the local inference       *)
(* server and the file system are the environment: each answer is chosen   *)
(* nondeterministically among the answers the code distinguishes.          *)
(***************************************************************************)
EXTENDS Integers, Sequences, FiniteSets, TLC

\* ------------------------------------------------------------- bounds
\* Operations a caller may have in flight at once.
MaxCalls == 1
\* Longest installed-model list the local server reports.
MaxInstalled == 2

\* ------------------------------------------------------------- values
Undefined == "undefined"
Null == "null"
DefaultUrl == "http://localhost:11434"
RemoteUrl == "http://remote:11434"
FieldDefaultModel == "llama3.2"
CtorDefaultModel == "gemma:latest"
GeminiModelName == "gemini-2.0-flash"

ModelNames == {"llama3.2", "mistral", "gemma:latest"}
\* The names the local server may hold; CtorDefaultModel is never installed.
Installable == {"llama3.2", "mistral"}
Urls == {DefaultUrl, RemoteUrl}

\* Arguments a caller passes: an omitted argument, the empty string, a value.
ApiKeyArgs == {Undefined, "", "key"}
SwitchKeyArgs == {Undefined, "key"}
ModelArgs == {Undefined} \cup Installable
UrlArgs == {Undefined, RemoteUrl}

\* JavaScript truthiness of an optional string argument.
Truthy(x) == x # Undefined /\ x # ""

\* `x || d` on an optional string.
OrElse(x, d) == IF Truthy(x) THEN x ELSE d

\* ------------------------------------------------------------- environment
\* Installed-model lists: sequences of distinct names, as GET /api/tags
\* reports them ({models: [{name}, ...]}).
RECURSIVE ListsOfLen(_)
ListsOfLen(n) ==
  IF n = 0 THEN {<<>>}
  ELSE {Append(l, [name |-> m]) : l \in ListsOfLen(n - 1), m \in Installable}

Distinct(l) == \A i, j \in 1..Len(l) : i # j => l[i].name # l[j].name

TagLists == {l \in UNION {ListsOfLen(n) : n \in 0..MaxInstalled} : Distinct(l)}

NoAnswer == [status |-> "none", present |-> FALSE, models |-> <<>>]

\* The answers to GET /api/tags: a rejected fetch, a non-OK response, or an
\* OK response whose body has no `models` field or has a list.
TagAnswers ==
  {[status |-> "down", present |-> FALSE, models |-> <<>>],
   [status |-> "notok", present |-> FALSE, models |-> <<>>],
   [status |-> "ok", present |-> FALSE, models |-> <<>>]}
  \cup {[status |-> "ok", present |-> TRUE, models |-> l] : l \in TagLists}

\* The answers to POST /api/generate: a rejected fetch, a non-OK response, or
\* an OK response whose `response` text is empty or not.
GenerateAnswers == {"reject", "notok", "text", "empty"}

\* The answers of the cloud SDK: an error, or a response whose text() is
\* empty or not.
CloudAnswers == {"error", "text", "empty"}

\* data.models?.map((model) => model.name) || []
TagNames(body) ==
  IF body.present THEN [i \in 1..Len(body.models) |-> body.models[i].name]
  ELSE <<>>

\* Array.prototype.includes on a list of names.
Includes(l, x) == \E i \in 1..Len(l) : l[i] = x

\* ------------------------------------------------------------- state
VARIABLES
  phase,        \* "new" before the constructor ran, then "ready" or "failed"
  useOllama,    \* LLMHelper.useOllama
  model,        \* LLMHelper.model: Null or the credential it was built from
  ollamaModel,  \* LLMHelper.ollamaModel
  ollamaUrl,    \* LLMHelper.ollamaUrl
  ctorArgs,     \* the apiKey and useOllama arguments the constructor was given
  calls,        \* the asynchronous operations in flight or settled, one per slot
  ret           \* the last switch call: its argument, and how it settled
                \* unless it awaits the auto-selection

vars == <<phase, useOllama, model, ollamaModel, ollamaUrl, ctorArgs, calls, ret>>
fields == <<useOllama, model, ollamaModel, ollamaUrl>>

\* Slot 0 holds the auto-selection the constructor starts and does not await;
\* slots 1..MaxCalls hold the operations callers have in flight.
CtorSlot == 0
CallerSlots == 1..MaxCalls
Slots == {CtorSlot} \cup CallerSlots

NoErr == [kind |-> "none", url |-> ""]

\* A slot holding no operation.  to, url, model: the request in flight;
\* availableModels, models: the locals of initializeOllamaModel; got: the
\* answer to the last GET /api/tags; prev, alone: the model name configured
\* when a switchToOllama() started and whether no run of the constructor was
\* in flight then; the rest: how the operation settled.
Idle ==
  [op |-> "idle", pc |-> "idle", to |-> "none", url |-> "", model |-> "",
   prev |-> "", alone |-> TRUE, fetches |-> 0, gens |-> 0,
   availableModels |-> <<>>, models |-> <<>>, got |-> NoAnswer,
   status |-> "pending", success |-> FALSE, text |-> "", names |-> <<>>,
   err |-> NoErr]

NoRet == [op |-> "none", arg |-> "", status |-> "none"]

\* A caller's operation takes the lowest free caller slot.
Free(s) ==
  /\ phase = "ready"
  /\ s \in CallerSlots
  /\ calls[s] = Idle
  /\ \A t \in CallerSlots : t < s => calls[t] # Idle

\* No call of a caller is pending.  The run the constructor started is not
\* among them: the constructor drops its promise.
Quiet == \A s \in CallerSlots : calls[s] = Idle

Put(s, t) == calls' = [calls EXCEPT ![s] = t]

\* ------------------------------------------------------------- results
Returned(t) ==
  [t EXCEPT !.pc = "done", !.to = "none", !.url = "", !.model = "",
            !.status = "returned"]

Threw(t, e) ==
  [t EXCEPT !.pc = "done", !.to = "none", !.url = "", !.model = "",
            !.status = "thrown", !.err = e]

\* ------------------------------------------------------------- backends
\* callOllama after its fetch settled: data.response, or the error of its
\* catch block, which names this.ollamaUrl as it is then.
CallOllamaDone(t, ans, urlNow) ==
  IF ans = "text" THEN [Returned(t) EXCEPT !.text = "answer"]
  ELSE IF ans = "empty" THEN [Returned(t) EXCEPT !.text = ""]
  ELSE Threw(t, [kind |-> "Failed to connect to Ollama", url |-> urlNow])

\* callOllama up to its fetch: the request carries this.ollamaUrl and
\* this.ollamaModel as they are at the call.
CallOllamaSent(t, url, m) ==
  [t EXCEPT !.pc = "generate", !.to = "local", !.url = url, !.model = m,
            !.gens = @ + 1]

\* this.model.generateContent(...) up to its request: a TypeError on a null
\* model, otherwise a request to the cloud backend under the model's credential.
GenerateContentSent(t, mdl) ==
  IF mdl = Null THEN Threw(t, [kind |-> "TypeError", url |-> ""])
  ELSE [t EXCEPT !.pc = "cloud", !.to = "cloud", !.url = "", !.model = mdl,
                 !.gens = @ + 1]

\* The cloud answer as the generation calls and chat hand it on: response.text()
\* whatever it is, or the SDK's error rethrown.
GenerateContentDone(t, ans) ==
  IF ans = "text" THEN [Returned(t) EXCEPT !.text = "answer"]
  ELSE IF ans = "empty" THEN [Returned(t) EXCEPT !.text = ""]
  ELSE Threw(t, [kind |-> "Gemini error", url |-> ""])

\* GET {url}/api/tags up to its fetch.
TagsSent(t, pc, url) ==
  [t EXCEPT !.pc = pc, !.to = "local", !.url = url, !.model = "",
            !.fetches = @ + 1]

\* getOllamaModels after its fetch settled: the listed names, or [] when the
\* fetch was rejected, the response not OK or the body without a list.
FetchedModels(answer) == IF answer.status = "ok" THEN TagNames(answer) ELSE <<>>

\* ------------------------------------------------------------- construction
\* The field initialisers, before the constructor body runs.
Init ==
  /\ phase = "new"
  /\ useOllama = FALSE
  /\ model = Null
  /\ ollamaModel = FieldDefaultModel
  /\ ollamaUrl = DefaultUrl
  /\ ctorArgs = [apiKey |-> Undefined, useOllama |-> FALSE]
  /\ calls = [s \in Slots |-> Idle]
  /\ ret = NoRet

\* initializeOllamaModel up to its first await: getOllamaModels (useOllama is
\* true at both call sites) and its fetch of the installed-model list.
InitializeStarted(op, url, prev) ==
  TagsSent([Idle EXCEPT !.op = op, !.prev = prev], "tags1", url)

\* A constructor that looks at the credential before the useOllama flag.
ConstructKeyFirst(apiKey, local, modelArg, urlArg) ==
  /\ phase = "new"
  /\ ctorArgs' = [apiKey |-> apiKey, useOllama |-> local]
  /\ UNCHANGED ret
  /\ IF Truthy(apiKey)
       THEN /\ useOllama' = FALSE
            /\ model' = apiKey
            /\ phase' = "ready"
            /\ UNCHANGED <<ollamaModel, ollamaUrl, calls>>
       ELSE IF local
         THEN /\ useOllama' = TRUE
              /\ ollamaUrl' = OrElse(urlArg, DefaultUrl)
              /\ ollamaModel' = OrElse(modelArg, CtorDefaultModel)
              /\ Put(CtorSlot, InitializeStarted("initializeOllamaModel", ollamaUrl', ""))
              /\ phase' = "ready"
              /\ UNCHANGED model
         ELSE /\ phase' = "failed"
              /\ UNCHANGED <<useOllama, model, ollamaModel, ollamaUrl, calls>>

\* new LLMHelper(apiKey, useOllama, ollamaModel, ollamaUrl)
Construct(apiKey, local, modelArg, urlArg) ==
  /\ phase = "new"
  /\ ctorArgs' = [apiKey |-> apiKey, useOllama |-> local]
  /\ useOllama' = local
  /\ UNCHANGED ret
  /\ IF local
       THEN /\ ollamaUrl' = OrElse(urlArg, DefaultUrl)
            /\ ollamaModel' = OrElse(modelArg, CtorDefaultModel)
            /\ Put(CtorSlot, InitializeStarted("initializeOllamaModel", ollamaUrl', ""))
            /\ phase' = "ready"
            /\ UNCHANGED model
       ELSE IF Truthy(apiKey)
         THEN /\ model' = apiKey
              /\ phase' = "ready"
              /\ UNCHANGED <<ollamaModel, ollamaUrl, calls>>
         ELSE /\ phase' = "failed"
              /\ UNCHANGED <<model, ollamaModel, ollamaUrl, calls>>

\* ------------------------------------------------------------- chat
\* chat / chatWithGemini up to the request.
ChatSent(t, local, mdl, url, m) ==
  IF local THEN CallOllamaSent(t, url, m)
  ELSE IF mdl # Null THEN GenerateContentSent(t, mdl)
  ELSE Threw(t, [kind |-> "No LLM provider configured", url |-> ""])

StartChat(s) ==
  /\ Free(s)
  /\ Put(s, ChatSent([Idle EXCEPT !.op = "chat"], useOllama, model, ollamaUrl, ollamaModel))
  /\ UNCHANGED <<phase, fields, ctorArgs, ret>>

\* A chat that falls back to the cloud backend when the local request fails.
ChatOllamaDoneFallsBack(s, ans) ==
  /\ calls[s].op = "chat" /\ calls[s].pc = "generate"
  /\ Put(s, CallOllamaDone(calls[s], ans, ollamaUrl))
  /\ useOllama' = (useOllama /\ ans \in {"text", "empty"})
  /\ UNCHANGED <<phase, model, ollamaModel, ollamaUrl, ctorArgs, ret>>

ChatOllamaDone(s, ans) ==
  /\ calls[s].op = "chat" /\ calls[s].pc = "generate"
  /\ Put(s, CallOllamaDone(calls[s], ans, ollamaUrl))
  /\ UNCHANGED <<phase, fields, ctorArgs, ret>>

ChatCloudDone(s, ans) ==
  /\ calls[s].op = "chat" /\ calls[s].pc = "cloud"
  /\ Put(s, GenerateContentDone(calls[s], ans))
  /\ UNCHANGED <<phase, fields, ctorArgs, ret>>

\* ------------------------------------------------------------- generation
\* The generation calls that build their payload without reading a file, and
\* those that read image or audio files first.
DirectOps == {"generateSolution", "analyzeAudioFromBase64"}
FileOps == {"extractProblemFromImages", "debugSolutionWithImages",
            "analyzeAudioFile", "analyzeImageFile"}
GenerationOps == DirectOps \cup FileOps

StartGeneration(s, op) ==
  /\ Free(s)
  /\ op \in DirectOps
  /\ Put(s, GenerateContentSent([Idle EXCEPT !.op = op], model))
  /\ UNCHANGED <<phase, fields, ctorArgs, ret>>

StartFileGeneration(s, op) ==
  /\ Free(s)
  /\ op \in FileOps
  /\ Put(s, [Idle EXCEPT !.op = op, !.pc = "readFile"])
  /\ UNCHANGED <<phase, fields, ctorArgs, ret>>

\* fs.promises.readFile settled: the error rethrown, or the request sent.
FileRead(s, readable) ==
  /\ calls[s].pc = "readFile"
  /\ Put(s, IF readable THEN GenerateContentSent(calls[s], model)
            ELSE Threw(calls[s], [kind |-> "ENOENT", url |-> ""]))
  /\ UNCHANGED <<phase, fields, ctorArgs, ret>>

GenerationDone(s, ans) ==
  /\ calls[s].op \in GenerationOps /\ calls[s].pc = "cloud"
  /\ Put(s, GenerateContentDone(calls[s], ans))
  /\ UNCHANGED <<phase, fields, ctorArgs, ret>>

\* ------------------------------------------------------------- getOllamaModels
GetOllamaModelsSent(t, local, url) ==
  IF ~local THEN [Returned(t) EXCEPT !.names = <<>>]
  ELSE TagsSent(t, "tags", url)

\* A getOllamaModels without its catch block.
GetOllamaModelsResultRaises(t, answer) ==
  IF answer.status = "ok"
    THEN [Returned(t) EXCEPT !.got = answer, !.names = FetchedModels(answer)]
  ELSE Threw([t EXCEPT !.got = answer], [kind |-> "Failed to fetch models", url |-> ""])

\* The fetch settled: every failure is caught and answered with [].
GetOllamaModelsResult(t, answer) ==
  [Returned(t) EXCEPT !.got = answer, !.names = FetchedModels(answer)]

StartGetOllamaModels(s) ==
  /\ Free(s)
  /\ Put(s, GetOllamaModelsSent([Idle EXCEPT !.op = "getOllamaModels"], useOllama, ollamaUrl))
  /\ UNCHANGED <<phase, fields, ctorArgs, ret>>

GetOllamaModelsDone(s, answer) ==
  /\ calls[s].op = "getOllamaModels" /\ calls[s].pc = "tags"
  /\ Put(s, GetOllamaModelsResult(calls[s], answer))
  /\ UNCHANGED <<phase, fields, ctorArgs, ret>>

\* ------------------------------------------------------------- testConnection
\* A failure turned into the structured result {success: false, error}.
TestFailed(t, e) == [Returned(t) EXCEPT !.success = FALSE, !.err = e]

TestSucceeded(t) == [Returned(t) EXCEPT !.success = TRUE]

\* testConnection up to its first await.
TestConnectionSent(t, local, mdl, url) ==
  IF local THEN TagsSent(t, "probe", url)
  ELSE IF mdl = Null
    THEN TestFailed(t, [kind |-> "No Gemini model configured", url |-> ""])
  ELSE GenerateContentSent(t, mdl)

StartTestConnection(s) ==
  /\ Free(s)
  /\ Put(s, TestConnectionSent([Idle EXCEPT !.op = "testConnection"],
                               useOllama, model, ollamaUrl))
  /\ UNCHANGED <<phase, fields, ctorArgs, ret>>

\* checkOllamaAvailable reads response.ok alone, and a rejected fetch as false.
ProbeAnswers == {a \in TagAnswers : ~a.present}

Available(answer) == answer.status = "ok"

\* checkOllamaAvailable settled.
TestProbed(t, answer, url, m) ==
  IF ~Available(answer)
    THEN TestFailed([t EXCEPT !.got = answer],
                    [kind |-> "Ollama not available at", url |-> url])
  ELSE CallOllamaSent([t EXCEPT !.got = answer], url, m)

TestConnectionProbed(s, answer) ==
  /\ calls[s].op = "testConnection" /\ calls[s].pc = "probe"
  /\ Put(s, TestProbed(calls[s], answer, ollamaUrl, ollamaModel))
  /\ UNCHANGED <<phase, fields, ctorArgs, ret>>

\* A testConnection that lets the error of callOllama through.
TestOllamaResultRethrows(t, r) ==
  IF r.status = "returned" THEN TestSucceeded(t) ELSE Threw(t, r.err)

\* callOllama("Hello") settled inside testConnection: its text is dropped, its
\* error is caught.
TestOllamaResult(t, r) ==
  IF r.status = "returned" THEN TestSucceeded(t) ELSE TestFailed(t, r.err)

TestConnectionOllamaDone(s, ans) ==
  /\ calls[s].op = "testConnection" /\ calls[s].pc = "generate"
  /\ Put(s, TestOllamaResult(calls[s], CallOllamaDone(calls[s], ans, ollamaUrl)))
  /\ UNCHANGED <<phase, fields, ctorArgs, ret>>

\* generateContent("Hello") settled inside testConnection.
TestCloudResult(t, ans) ==
  IF ans = "text" THEN TestSucceeded(t)
  ELSE IF ans = "empty"
    THEN TestFailed(t, [kind |-> "Empty response from Gemini", url |-> ""])
  ELSE TestFailed(t, [kind |-> "Gemini error", url |-> ""])

TestConnectionCloudDone(s, ans) ==
  /\ calls[s].op = "testConnection" /\ calls[s].pc = "cloud"
  /\ Put(s, TestCloudResult(calls[s], ans))
  /\ UNCHANGED <<phase, fields, ctorArgs, ret>>

\* ------------------------------------------------------------- auto-selection
InitOps == {"initializeOllamaModel", "switchToOllama"}

\* initializeOllamaModel returning.  Under switchToOllama the caller's await
\* resumes in a later turn; the constructor holds no promise of its run, which
\* is gone once it returns.
InitializeReturned(t) ==
  IF t.op = "switchToOllama"
    THEN [t EXCEPT !.pc = "resume", !.to = "none", !.url = "", !.model = ""]
  ELSE Idle

\* A selection that takes the first listed model whatever is configured.
AutoSelectedFirst(list, current) == list[1]

\* The model kept or substituted once the first list is in.
AutoSelected(list, current) ==
  IF Includes(list, current) THEN current ELSE list[1]

\* The model after the fallback fetch.
FallbackSelected(list, current) ==
  IF Len(list) > 0 THEN list[1] ELSE current

\* The first list is in: return on an empty list, otherwise select and send
\* the test request.
InitializeListed(s, answer) ==
  /\ calls[s].op \in InitOps /\ calls[s].pc = "tags1"
  /\ LET list == FetchedModels(answer)
         t == [calls[s] EXCEPT !.availableModels = list]
     IN IF Len(list) = 0
          THEN /\ Put(s, InitializeReturned(t))
               /\ UNCHANGED ollamaModel
          ELSE /\ ollamaModel' = AutoSelected(list, ollamaModel)
               /\ Put(s, CallOllamaSent(t, ollamaUrl, ollamaModel'))
  /\ UNCHANGED <<phase, useOllama, model, ollamaUrl, ctorArgs, ret>>

\* Whether the catch block's getOllamaModels fetches: in cloud mode it answers
\* [] at once, and the run returns.
FallbackFetches(local) == local

\* An auto-selection that sends the test request again when it fails.
InitializeTestedRetries(s, ans) ==
  /\ calls[s].op \in InitOps /\ calls[s].pc = "generate"
  /\ Put(s, IF ans \in {"text", "empty"}
              THEN InitializeReturned(calls[s])
            ELSE CallOllamaSent(calls[s], ollamaUrl, ollamaModel))
  /\ UNCHANGED <<phase, fields, ctorArgs, ret>>

\* The catch block's getOllamaModels answering [] without a fetch: the run
\* waits at its await for that answer.
FallbackSkipped(t) ==
  [t EXCEPT !.pc = "nofetch", !.to = "none", !.url = "", !.model = ""]

\* The test request settled: return, or on its failure enter the catch block,
\* whose getOllamaModels reads useOllama.
InitializeTested(s, ans) ==
  /\ calls[s].op \in InitOps /\ calls[s].pc = "generate"
  /\ Put(s, IF ans \in {"text", "empty"} THEN InitializeReturned(calls[s])
            ELSE IF FallbackFetches(useOllama)
              THEN TagsSent(calls[s], "tags2", ollamaUrl)
            ELSE FallbackSkipped(calls[s]))
  /\ UNCHANGED <<phase, fields, ctorArgs, ret>>

\* The catch block resuming on the [] that getOllamaModels answered in cloud
\* mode: models.length is 0 and the run returns.
InitializeFallbackEmpty(s) ==
  /\ calls[s].op \in InitOps /\ calls[s].pc = "nofetch"
  /\ Put(s, InitializeReturned([calls[s] EXCEPT !.models = <<>>]))
  /\ UNCHANGED <<phase, fields, ctorArgs, ret>>

\* The fallback list is in.
InitializeFallback(s, answer) ==
  /\ calls[s].op \in InitOps /\ calls[s].pc = "tags2"
  /\ LET list == FetchedModels(answer) IN
       /\ ollamaModel' = FallbackSelected(list, ollamaModel)
       /\ Put(s, InitializeReturned([calls[s] EXCEPT !.models = list]))
  /\ UNCHANGED <<phase, useOllama, model, ollamaUrl, ctorArgs, ret>>

\* ------------------------------------------------------------- switches
\* switchToOllama(model, url) with a model name: no await on its path.
SwitchToOllamaNamed(modelArg, urlArg) ==
  /\ phase = "ready"
  /\ Truthy(modelArg)
  /\ useOllama' = TRUE
  /\ ollamaUrl' = OrElse(urlArg, ollamaUrl)
  /\ ollamaModel' = modelArg
  /\ ret' = [op |-> "switchToOllama", arg |-> modelArg, status |-> "returned"]
  /\ UNCHANGED <<phase, model, ctorArgs, calls>>

\* switchToOllama(undefined, url): awaits the auto-selection.
SwitchToOllamaAuto(s, urlArg) ==
  /\ Free(s)
  /\ useOllama' = TRUE
  /\ ollamaUrl' = OrElse(urlArg, ollamaUrl)
  /\ Put(s, [InitializeStarted("switchToOllama", ollamaUrl', ollamaModel)
                EXCEPT !.alone = (calls[CtorSlot] = Idle)])
  /\ ret' = [op |-> "switchToOllama", arg |-> Undefined, status |-> "awaited"]
  /\ UNCHANGED <<phase, model, ollamaModel, ctorArgs>>

\* switchToOllama() resuming from its await: it reads this.ollamaModel for its
\* log and returns.
SwitchToOllamaResumed(s) ==
  /\ calls[s].op = "switchToOllama" /\ calls[s].pc = "resume"
  /\ Put(s, [Returned(calls[s]) EXCEPT !.text = ollamaModel])
  /\ UNCHANGED <<phase, fields, ctorArgs, ret>>

\* this.model after switchToGemini's optional rebuild.
GeminiModel(mdl, apiKey) == IF Truthy(apiKey) THEN apiKey ELSE mdl

\* Whether switchToGemini throws, given this.model after the rebuild.
SwitchToGeminiThrows(mdl, apiKey) == mdl = Null /\ ~Truthy(apiKey)

SwitchToGemini(apiKey) ==
  /\ phase = "ready"
  /\ model' = GeminiModel(model, apiKey)
  /\ IF SwitchToGeminiThrows(model', apiKey)
       THEN /\ ret' = [op |-> "switchToGemini", arg |-> apiKey, status |-> "thrown"]
            /\ UNCHANGED useOllama
       ELSE /\ ret' = [op |-> "switchToGemini", arg |-> apiKey, status |-> "returned"]
            /\ useOllama' = FALSE
  /\ UNCHANGED <<phase, ollamaModel, ollamaUrl, ctorArgs, calls>>

\* ------------------------------------------------------------- scheduling
\* The caller takes the result of a settled operation.
Collect(s) ==
  /\ calls[s].pc = "done"
  /\ Put(s, Idle)
  /\ UNCHANGED <<phase, fields, ctorArgs, ret>>

Starts ==
  \/ \E k \in ApiKeyArgs, l \in BOOLEAN, m \in ModelArgs, u \in UrlArgs :
       Construct(k, l, m, u)
  \/ \E m \in ModelArgs, u \in UrlArgs : SwitchToOllamaNamed(m, u)
  \/ \E k \in SwitchKeyArgs : SwitchToGemini(k)
  \/ \E s \in CallerSlots :
       \/ StartChat(s)
       \/ \E op \in DirectOps : StartGeneration(s, op)
       \/ \E op \in FileOps : StartFileGeneration(s, op)
       \/ StartGetOllamaModels(s)
       \/ StartTestConnection(s)
       \/ \E u \in UrlArgs : SwitchToOllamaAuto(s, u)

Steps ==
  \E s \in Slots :
    \/ \E ans \in GenerateAnswers : ChatOllamaDone(s, ans)
    \/ \E ans \in CloudAnswers : ChatCloudDone(s, ans)
    \/ \E r \in BOOLEAN : FileRead(s, r)
    \/ \E ans \in CloudAnswers : GenerationDone(s, ans)
    \/ \E a \in TagAnswers : GetOllamaModelsDone(s, a)
    \/ \E a \in ProbeAnswers : TestConnectionProbed(s, a)
    \/ \E ans \in GenerateAnswers : TestConnectionOllamaDone(s, ans)
    \/ \E ans \in CloudAnswers : TestConnectionCloudDone(s, ans)
    \/ \E a \in TagAnswers : InitializeListed(s, a)
    \/ \E ans \in GenerateAnswers : InitializeTested(s, ans)
    \/ \E a \in TagAnswers : InitializeFallback(s, a)
    \/ InitializeFallbackEmpty(s)
    \/ SwitchToOllamaResumed(s)
    \/ Collect(s)

\* Callers that overlap their operations at will.
Next == Starts \/ Steps

Spec == Init /\ [][Next]_vars

\* A caller that awaits each of its calls before the next one; the run the
\* constructor started goes on beside them.
NextSeq == (Quiet /\ Starts) \/ Steps

SpecSeq == Init /\ [][NextSeq]_vars

\* The step that takes the answer, a response or an error, of the request
\* slot s has pending.
Answered(s) ==
  \/ \E ans \in GenerateAnswers : ChatOllamaDone(s, ans)
  \/ \E ans \in CloudAnswers : ChatCloudDone(s, ans)
  \/ \E r \in BOOLEAN : FileRead(s, r)
  \/ \E ans \in CloudAnswers : GenerationDone(s, ans)
  \/ \E a \in TagAnswers : GetOllamaModelsDone(s, a)
  \/ \E a \in ProbeAnswers : TestConnectionProbed(s, a)
  \/ \E ans \in GenerateAnswers : TestConnectionOllamaDone(s, ans)
  \/ \E ans \in CloudAnswers : TestConnectionCloudDone(s, ans)
  \/ \E a \in TagAnswers : InitializeListed(s, a)
  \/ \E ans \in GenerateAnswers : InitializeTested(s, ans)
  \/ \E a \in TagAnswers : InitializeFallback(s, a)

\* ------------------------------------------------------------- properties
\* The operations that generate text for a caller.
AnswerOps == GenerationOps \cup {"chat"}

\* Slot s sends a request in this step.
Sends(s) ==
  /\ calls'[s].to # "none"
  /\ calls'[s] # calls[s]

\* Slot s settles in this step.
Settles(s) == calls[s].pc # "done" /\ calls'[s].pc = "done"

\* C1: while the provider mode is local no chat or generation call sends a
\* request to the cloud backend: each request sent in local mode goes to the
\* local server, also when a cloud credential was configured earlier.
C1_NoCloudRequestInLocalMode ==
  [][\A s \in Slots :
       (Sends(s) /\ calls'[s].op \in AnswerOps /\ useOllama)
         => calls'[s].to = "local"]_vars

\* ret and calls tell which call a step belongs to.
SwitchToOllamaStep ==
  \/ ret' # ret /\ ret'.op = "switchToOllama"
  \/ \E s \in CallerSlots : calls[s] = Idle /\ calls'[s].op = "switchToOllama"

SwitchToGeminiStep == ret' # ret /\ ret'.op = "switchToGemini"

\* C2: the provider mode is one of cloud and local, is set by the constructor,
\* and afterwards changes only in a step of switchToOllama (to local) or of
\* switchToGemini (to cloud); no step of chat, of a generation call, of
\* testConnection, of getOllamaModels or of the auto-selection changes it.
C2_ModeChangesOnlyInSwitches ==
  [][/\ useOllama' \in BOOLEAN
     /\ useOllama' # useOllama =>
          \/ phase = "new"
          \/ useOllama' /\ SwitchToOllamaStep
          \/ ~useOllama' /\ SwitchToGeminiStep]_vars

\* A chat failed against the local server and the mode is still local.
C2_Witness ==
  \E s \in CallerSlots :
    /\ calls[s].op = "chat"
    /\ calls[s].status = "thrown"
    /\ calls[s].err.kind = "Failed to connect to Ollama"
    /\ useOllama

\* A credential was given to the constructor or to an earlier switchToGemini.
CredentialConfigured == Truthy(ctorArgs.apiKey) \/ model # Null

\* C3: switchToGemini without a new credential succeeds, and the mode is then
\* cloud, exactly when a credential was configured before; otherwise it throws
\* and the mode stays local.
C3_SwitchToGeminiNeedsCredential ==
  (ret.op = "switchToGemini" /\ ~Truthy(ret.arg)) =>
    /\ ret.status = "returned" <=> CredentialConfigured
    /\ ret.status = "returned" => ~useOllama
    /\ ret.status = "thrown" => useOllama

\* switchToOllama() without a model name, started when no run of the
\* constructor was in flight, has returned in slot s, against a server that
\* answered each of its fetches with the same non-empty list.
AutoSwitched(s) ==
  /\ calls[s].op = "switchToOllama"
  /\ calls[s].pc = "done"
  /\ calls[s].alone
  /\ Len(calls[s].availableModels) > 0
  /\ calls[s].fetches = 2 => calls[s].models = calls[s].availableModels

\* getCurrentModel()
GetCurrentModel == IF useOllama THEN ollamaModel ELSE GeminiModelName

\* C4 as claimed: after switchToOllama() without a model name, against a
\* server whose installed-model list L is non-empty, the active model is the
\* first entry of L, whatever name was configured before.
C4_FirstInstalledSelected ==
  \A s \in CallerSlots :
    AutoSwitched(s) => GetCurrentModel = calls[s].availableModels[1]

\* What the code does where C4 claims the first entry: the active model is the
\* first entry of L when the name held before is absent from L or the test
\* request failed; a name held before that is in L, at whatever position,
\* stays the active model when the test request succeeds.
C4_FirstInstalledUnlessConfiguredWorks ==
  \A s \in CallerSlots :
    AutoSwitched(s) =>
      /\ calls[s].status = "returned"
      /\ calls[s].text = GetCurrentModel
      /\ GetCurrentModel =
           IF Includes(calls[s].availableModels, calls[s].prev) /\ calls[s].fetches = 1
             THEN calls[s].prev
           ELSE calls[s].availableModels[1]

\* The configured name was absent from L and the first entry of L took its
\* place.
C4_Witness ==
  \E s \in CallerSlots :
    /\ AutoSwitched(s)
    /\ Len(calls[s].availableModels) = 2
    /\ ~Includes(calls[s].availableModels, calls[s].prev)
    /\ ollamaModel = calls[s].availableModels[1]

\* C5: a chat or generation call sends its request to the provider that is
\* active when it sends it (for the local provider to the endpoint and model
\* current then), and the request, once sent, is left alone by every other
\* step until the call settles on its answer, with a result or an error.
C5_InFlightKeepsProvider ==
  [][\A s \in Slots :
       /\ (Sends(s) /\ calls'[s].op \in AnswerOps) =>
            IF useOllama
              THEN /\ calls'[s].to = "local"
                   /\ calls'[s].url = ollamaUrl
                   /\ calls'[s].model = ollamaModel
              ELSE calls'[s].to = "cloud"
       /\ (calls[s].to # "none" /\ calls[s].op \in AnswerOps) =>
            \/ calls'[s] = calls[s]
            \/ Settles(s) /\ calls'[s].status \in {"returned", "thrown"}]_vars

\* C6: testConnection never throws: it settles with a structured result,
\* a result with success false carries an error message, and when the local
\* branch fails (the server unreachable or the test request failing) the
\* message names this.ollamaUrl.
C6_TestConnectionNeverThrows ==
  [][\A s \in Slots :
       (Settles(s) /\ calls'[s].op = "testConnection") =>
          /\ calls'[s].status = "returned"
          /\ ~calls'[s].success => calls'[s].err.kind # "none"
          /\ (~calls'[s].success /\ calls[s].pc \in {"probe", "generate"}) =>
               calls'[s].err.url = ollamaUrl]_vars

\* testConnection found the local server unreachable and said so, naming the
\* endpoint.
C6_Witness ==
  \E s \in CallerSlots :
    /\ calls[s].op = "testConnection"
    /\ calls[s].pc = "done"
    /\ calls[s].got.status = "down"
    /\ ~calls[s].success
    /\ calls[s].err = [kind |-> "Ollama not available at", url |-> ollamaUrl]

\* C7: a generation call that settles successfully returns a non-empty text.
C7_SuccessfulTextNonEmpty ==
  \A s \in Slots :
    (calls[s].op \in GenerationOps /\ calls[s].status = "returned") =>
      calls[s].text # ""

\* C8: getOllamaModels never raises; it returns the names the server listed,
\* in the server's order, and the empty sequence when the server is
\* unreachable, answers non-OK or answers without a list.
C8_GetOllamaModelsNeverRaises ==
  \A s \in Slots :
    (calls[s].op = "getOllamaModels" /\ calls[s].pc = "done") =>
      /\ calls[s].status = "returned"
      /\ IF calls[s].got.status = "ok" /\ calls[s].got.present
           THEN /\ Len(calls[s].names) = Len(calls[s].got.models)
                /\ \A i \in 1..Len(calls[s].names) :
                     calls[s].names[i] = calls[s].got.models[i].name
         ELSE calls[s].names = <<>>

\* getOllamaModels returned two names in the server's order.
C8_Witness ==
  \E s \in CallerSlots :
    /\ calls[s].op = "getOllamaModels"
    /\ calls[s].status = "returned"
    /\ calls[s].names = <<"mistral", "llama3.2">>

\* C9: construction fails exactly when local mode is not requested and no
\* non-empty credential is given; otherwise it succeeds, in local mode when
\* local mode was requested and in cloud mode otherwise.
C9_ConstructionFailsWithoutProvider ==
  [][phase = "new" =>
       /\ phase' \in {"ready", "failed"}
       /\ phase' = "failed" <=>
            (~ctorArgs'.useOllama /\ ~Truthy(ctorArgs'.apiKey))
       /\ phase' = "ready" => useOllama' = ctorArgs'.useOllama]_vars

\* Constructed in local mode with a credential also given.
C9_Witness ==
  /\ phase = "ready"
  /\ ctorArgs = [apiKey |-> "key", useOllama |-> TRUE]
  /\ useOllama
  /\ calls[CtorSlot].pc = "tags1"

\* One run of the auto-selection counts its requests.
C10_Bounded ==
  \A s \in Slots :
    /\ calls[s].op \in InitOps =>
         /\ calls[s].fetches <= 2
         /\ calls[s].gens <= 1
         /\ calls[s].status # "thrown"
    /\ calls[s].op \notin InitOps =>
         /\ calls[s].fetches <= 1
         /\ calls[s].gens <= 1

\* A step of a run changes the model name only to the head of the list it has
\* just fetched.
C10_Selects ==
  \A s \in Slots :
    (calls[s].op \in InitOps /\ calls'[s] # calls[s] /\ ollamaModel' # ollamaModel) =>
      \/ /\ calls[s].pc = "tags1"
         /\ Len(calls'[s].availableModels) > 0
         /\ ollamaModel' = calls'[s].availableModels[1]
      \/ /\ calls[s].pc = "tags2"
         /\ calls'[s].pc = "resume" =>
              /\ Len(calls'[s].models) > 0
              /\ ollamaModel' = calls'[s].models[1]

\* How far a run of the auto-selection has come.
RunRank(t) ==
  CASE t.pc = "tags1" -> 1
    [] t.pc = "generate" -> 2
    [] t.pc \in {"tags2", "nofetch"} -> 3
    [] t.pc = "resume" -> 4
    [] OTHER -> 5

\* A run in flight waits for one answer, and the step that takes it is
\* enabled; so is its resumption on a fallback list got without a fetch, and,
\* once it has returned under switchToOllama, the caller's resumption.
C10_NeverStuck ==
  \A s \in Slots :
    (calls[s].op \in InitOps /\ calls[s].pc # "done") =>
      /\ calls[s].pc \in {"tags1", "generate", "tags2", "nofetch", "resume"}
      /\ calls[s].pc = "resume" => ENABLED SwitchToOllamaResumed(s)
      /\ calls[s].pc = "nofetch" => ENABLED InitializeFallbackEmpty(s)
      /\ calls[s].pc \notin {"resume", "nofetch"} => ENABLED Answered(s)

\* Each step of a run takes it forward, never back to a request it has made.
C10_Advances ==
  \A s \in Slots :
    (calls[s].op \in InitOps /\ calls[s].pc # "done" /\ calls'[s] # calls[s]) =>
      RunRank(calls'[s]) > RunRank(calls[s])

\* C10: one run of initializeOllamaModel terminates without raising: it is
\* never stuck, each of its steps takes it forward, and it makes at most two
\* fetches of the list and one test request.  It changes the model name only
\* on a fetched list that is not empty, to its first entry.  No other
\* operation sends a second request of a kind.
C10_AutoSelectionTerminates ==
  /\ [](C10_Bounded /\ C10_NeverStuck)
  /\ [][C10_Selects /\ C10_Advances]_vars

\* A run went through both fetches and the test request and took the head of
\* the fallback list.
C10_Witness ==
  \E s \in CallerSlots :
    /\ calls[s].op \in InitOps
    /\ calls[s].pc = "done"
    /\ calls[s].fetches = 2
    /\ calls[s].gens = 1
    /\ Len(calls[s].models) = 2
    /\ ollamaModel = calls[s].models[1]
    /\ ollamaModel # calls[s].availableModels[1]

\* C11: a model name passed to switchToOllama(model) is the active model when
\* that call returns and stays the active model until the next switch, also
\* while an auto-selection started earlier, by the constructor or by a
\* switchToOllama() without a model name, is in flight and when it completes.
C11_ExplicitModelStays ==
  (ret.op = "switchToOllama" /\ Truthy(ret.arg)) => GetCurrentModel = ret.arg

=============================================================================
